---------------------------- MODULE Spec2Model ----------------------------
(***************************************************************************)
(* aws-vault: the access-control expression validator                      *)
(* (validateAccessControls and the ConfigureGlobals validation hook) and   *)
(* the copy command (CopyCommand).                                         *)
(*                                                                         *)
(* Strings that the code inspects character by character (the              *)
(* --access-control value, the vocabulary, the conjunctions) are sequences *)
(* of one-character strings, so that the regular expressions of the code   *)
(* are matched on characters.                                              *)
(***************************************************************************)
EXTENDS Integers, Sequences, FiniteSets, TLC

VARIABLES
    accessControl,             \* a.accessControl, a sequence of characters
    arg,                       \* how the --access-control argument was put together
    result,                    \* what validateAccessControls returned
    KeyringBackend,            \* a.KeyringBackend
    KeychainAccessConstraint,  \* a.KeyringConfig.KeychainAccessConstraint
    KeychainAccessControl,     \* a.KeyringConfig.KeychainAccessControl
    hookErr,                   \* what the validation hook returned
    pc,                        \* position of the running function
    ns,                        \* CopyCommand: the namespace being listed or copied
    src,                       \* source keyring, per namespace: key -> payload
    srcOrder,                  \* source keyring, per namespace: the order Keys() lists
    dest,                      \* destination keyring, per namespace: key -> payload
    names,                     \* srcCredentialNames, srcOidcTokenNames, srcSessionNames
    idx,                       \* position of the running range loop
    cur,                       \* creds / oidcToken / session just read
    ret,                       \* what CopyCommand returned
    calls,                     \* the calls made on the two keyrings, in order
    src0,                      \* the source keyring when CopyCommand was called
    dest0                      \* the destination keyring when CopyCommand was called

vars == <<accessControl, arg, result, KeyringBackend, KeychainAccessConstraint,
          KeychainAccessControl, hookErr, pc, ns, src, srcOrder, dest, names,
          idx, cur, ret, calls, src0, dest0>>

validateVars == <<accessControl, arg, result>>
globalVars == <<KeyringBackend, KeychainAccessConstraint, KeychainAccessControl, hookErr>>
copyVars == <<ns, src, srcOrder, dest, names, idx, cur, ret, calls, src0, dest0>>

-----------------------------------------------------------------------------
(* Bounds of the explored inputs *)

\* longest well-formed expression, in terms
MaxTerms == 4

\* longest expression that is then damaged (conjunction added, case altered ...)
MaxBadTerms == 2

\* longest expression handed to the validation hook
MaxHookTerms == 2

\* most keys the source keyring holds in each namespace
MaxCredentialKeys == 3
MaxOIDCTokenKeys == 2
MaxSessionKeys == 2

-----------------------------------------------------------------------------
(* Characters and strings *)

Spelling == [
    UserPresence |-> <<"U","s","e","r","P","r","e","s","e","n","c","e">>,
    BiometryCurrentSet |-> <<"B","i","o","m","e","t","r","y","C","u","r","r","e","n","t","S","e","t">>,
    BiometryAnySet |-> <<"B","i","o","m","e","t","r","y","A","n","y","S","e","t">>,
    DevicePasscode |-> <<"D","e","v","i","c","e","P","a","s","s","c","o","d","e">>,
    Watch |-> <<"W","a","t","c","h">>,
    ApplicationPassword |-> <<"A","p","p","l","i","c","a","t","i","o","n","P","a","s","s","w","o","r","d">>,
    And |-> <<"A","n","d">>,
    Or |-> <<"O","r">>,
    Invalid |-> <<"I","n","v","a","l","i","d">>]

accessControlOptions ==
    <<"UserPresence", "BiometryCurrentSet", "BiometryAnySet", "DevicePasscode",
      "Watch", "ApplicationPassword">>

accessConstraintOptions ==
    <<"", "AccessibleWhenUnlocked", "AccessibleAfterFirstUnlock",
      "AccessibleAfterFirstUnlockThisDeviceOnly",
      "AccessibleWhenPasscodeSetThisDeviceOnly",
      "AccessibleWhenUnlockedThisDeviceOnly">>

Range(f) == {f[i] : i \in DOMAIN f}

\* the alternatives of the two regular expressions
validTerms == {Spelling[accessControlOptions[i]] : i \in DOMAIN accessControlOptions}
Conjunctions == <<Spelling["And"], Spelling["Or"]>>

\* the patterns written without \s*
IsSpace_None(c) == FALSE

\* \s of the regular expressions
IsSpace(c) == c \in {" ", "\t", "\n", "\f", "\r"}

\* the pattern p occurs in s at position i
HasPrefixAt(s, i, p) ==
    /\ i + Len(p) - 1 <= Len(s)
    /\ \A k \in 1..Len(p) : s[i + k - 1] = p[k]

\* the positions \s* can reach from position i
SpaceRuns(s, i) == {j \in i..(Len(s) + 1) : \A k \in i..(j - 1) : IsSpace(s[k])}

\* the position after the longest run of white space from i (\s* is greedy)
RECURSIVE SkipSpace(_, _)
SkipSpace(s, i) ==
    IF i <= Len(s) /\ IsSpace(s[i]) THEN SkipSpace(s, i + 1) ELSE i

\* (?:\s*(And|Or)\s*(TERM))*$ from position i
RECURSIVE MatchRest(_, _)
MatchRest(s, i) ==
    \/ i = Len(s) + 1
    \/ \E a \in SpaceRuns(s, i) : \E c \in Range(Conjunctions) :
          /\ HasPrefixAt(s, a, c)
          /\ \E b \in SpaceRuns(s, a + Len(c)) : \E t \in validTerms :
                /\ HasPrefixAt(s, b, t)
                /\ MatchRest(s, b + Len(t))

\* the pattern written without the closing $
MatchString_Unanchored(s) == \E t \in validTerms : HasPrefixAt(s, 1, t)

\* regex.MatchString of ^(TERM)(?:\s*(And|Or)\s*(TERM))*$
MatchString(s) ==
    \E t \in validTerms : HasPrefixAt(s, 1, t) /\ MatchRest(s, 1 + Len(t))

\* the split pattern written as \s*(And)\s*
SplitMatchAt_NoOr(s, j) ==
    LET a == SkipSpace(s, j) IN
    IF HasPrefixAt(s, a, Conjunctions[1]) THEN SkipSpace(s, a + Len(Conjunctions[1]))
    ELSE 0

\* the end (exclusive) of the match of \s*(And|Or)\s* that starts at j, 0 if none
SplitMatchAt(s, j) ==
    LET a == SkipSpace(s, j) IN
    IF HasPrefixAt(s, a, Conjunctions[1]) THEN SkipSpace(s, a + Len(Conjunctions[1]))
    ELSE IF HasPrefixAt(s, a, Conjunctions[2]) THEN SkipSpace(s, a + Len(Conjunctions[2]))
    ELSE 0

\* FindAllStringIndex: the leftmost matches from position i on, not overlapping
RECURSIVE FindAll(_, _)
FindAll(s, i) ==
    LET starts == {j \in i..Len(s) : SplitMatchAt(s, j) # 0} IN
    IF starts = {} THEN <<>>
    ELSE LET j == CHOOSE m \in starts : \A n \in starts : m <= n
         IN <<(<<j, SplitMatchAt(s, j)>>)>> \o FindAll(s, SplitMatchAt(s, j))

\* the pieces of s between the matches ms, beg being where the current piece starts
RECURSIVE Pieces(_, _, _)
Pieces(s, ms, beg) ==
    IF ms = <<>> THEN <<SubSeq(s, beg, Len(s))>>
    ELSE <<SubSeq(s, beg, ms[1][1] - 1)>> \o Pieces(s, Tail(ms), ms[1][2])

\* splitRegex.Split(s, -1)
Split(s) ==
    IF Len(s) = 0 THEN <<(<<>>)>> ELSE Pieces(s, FindAll(s, 1), 1)

\* strings.TrimSpace
RECURSIVE TrimRight(_)
TrimRight(s) ==
    IF Len(s) > 0 /\ IsSpace(s[Len(s)]) THEN TrimRight(SubSeq(s, 1, Len(s) - 1)) ELSE s

TrimSpace(s) == TrimRight(SubSeq(s, SkipSpace(s, 1), Len(s)))

-----------------------------------------------------------------------------
(* Errors *)

NoError == [msg |-> "", arg |-> <<>>, backend |-> ""]
Errorf(m, a) == [msg |-> m, arg |-> a, backend |-> ""]

InvalidSetting == "invalid access control setting"
RepeatedTerm == "repeated access control term"
NotSupported == "--access-control is not supported with the backend, only 'dp-keychain' is supported"

-----------------------------------------------------------------------------
(* validateAccessControls *)

\* the loop reporting the leftmost term that occurs again later
SeenLoop_NamesFirstOccurrence(ts, i, seen) ==
    LET again == {j \in i..Len(ts) : \E k \in (j + 1)..Len(ts) : TrimSpace(ts[k]) = TrimSpace(ts[j])}
    IN IF again = {} THEN NoError
       ELSE Errorf(RepeatedTerm, TrimSpace(ts[CHOOSE j \in again : \A k \in again : j <= k]))

\* the loop over terms with the seen map: the first term already seen, as an
\* error, or NoError
RECURSIVE SeenLoop(_, _, _)
SeenLoop(ts, i, seen) ==
    IF i > Len(ts) THEN NoError
    ELSE LET normalizedTerm == TrimSpace(ts[i]) IN
         IF normalizedTerm \in seen THEN Errorf(RepeatedTerm, normalizedTerm)
         ELSE SeenLoop(ts, i + 1, seen \cup {normalizedTerm})

validateAccessControls(ac) ==
    IF ~MatchString(ac) THEN [terms |-> <<>>, err |-> Errorf(InvalidSetting, ac)]
    ELSE LET ts == Split(ac)
             e == SeenLoop(ts, 1, {})
         IN IF e # NoError THEN [terms |-> <<>>, err |-> e]
            ELSE [terms |-> ts, err |-> NoError]

-----------------------------------------------------------------------------
(* The --access-control arguments explored.  An argument is described by   *)
(* its kind, the terms it was built from (names of accessControlOptions)   *)
(* and its tokens; the string handed to the program is the tokens'         *)
(* characters one after the other.                                         *)

Lower == <<"a","b","c","d","e","f","g","h","i","j","k","l","m","n","o","p","q","r","s","t","u","v","w","x","y","z">>
Upper == <<"A","B","C","D","E","F","G","H","I","J","K","L","M","N","O","P","Q","R","S","T","U","V","W","X","Y","Z">>

ToggleCase(ch) ==
    IF \E i \in DOMAIN Lower : Lower[i] = ch
    THEN Upper[CHOOSE i \in DOMAIN Lower : Lower[i] = ch]
    ELSE IF \E i \in DOMAIN Upper : Upper[i] = ch
    THEN Lower[CHOOSE i \in DOMAIN Upper : Upper[i] = ch]
    ELSE ch

ToggleAt(s, k) == [s EXCEPT ![k] = ToggleCase(s[k])]

RECURSIVE Flatten(_)
Flatten(toks) == IF toks = <<>> THEN <<>> ELSE Head(toks) \o Flatten(Tail(toks))

TermSeqs(n) == UNION {[1..k -> Range(accessControlOptions)] : k \in 1..n}

\* the conjunction of gap g: "And" and "Or" alternate, c says which comes first
ConjAt(c, g) == IF (g + c) % 2 = 0 THEN Spelling["And"] ELSE Spelling["Or"]

\* terms ts from the i-th on, each preceded by white space, conjunction, white space
RECURSIVE JoinFrom(_, _, _, _, _)
JoinFrom(ts, c, before, after, i) ==
    IF i > Len(ts) THEN <<>>
    ELSE before \o <<ConjAt(c, i - 1)>> \o after \o <<Spelling[ts[i]]>>
         \o JoinFrom(ts, c, before, after, i + 1)

Join(ts, c, before, after) == <<Spelling[ts[1]]>> \o JoinFrom(ts, c, before, after, 2)

Paddings == {
    [before |-> <<(<<" ">>)>>, after |-> <<(<<" ">>)>>],
    [before |-> <<(<<"\t">>), (<<" ">>)>>, after |-> <<>>]}

Argument(kind, ts, toks) == [kind |-> kind, terms |-> ts, toks |-> toks]

InsertAt(toks, i, t) == SubSeq(toks, 1, i - 1) \o <<t>> \o SubSeq(toks, i, Len(toks))
RemoveAt(toks, i) == SubSeq(toks, 1, i - 1) \o SubSeq(toks, i + 1, Len(toks))

\* terms joined by "And"/"Or" directly
PlainArguments(n) ==
    {Argument("plain", ts, Join(ts, c, <<>>, <<>>)) : ts \in TermSeqs(n), c \in 0..1}

\* terms joined by "And"/"Or" with white space around the conjunctions
SpacedArguments(n) ==
    {Argument("spaced", a.ts, Join(a.ts, a.c, a.p.before, a.p.after)) :
        a \in {b \in [ts : TermSeqs(n), c : 0..1, p : Paddings] : Len(b.ts) >= 2}}

\* a plain argument damaged in one place
DamagedArguments(n) ==
    LET Base == [ts : TermSeqs(n), c : 0..1]
        W(b) == Join(b.ts, b.c, <<>>, <<>>)
        Gaps(b) == 1..(Len(b.ts) - 1)
    IN  {Argument("empty", <<>>, <<>>)}
        \cup {Argument("lead", b.ts, <<ConjAt(b.c, 0)>> \o W(b)) : b \in Base}
        \cup {Argument("trail", b.ts, W(b) \o <<ConjAt(b.c, 0)>>) : b \in Base}
        \cup {Argument("leadspace", b.ts, <<(<<" ">>)>> \o W(b)) : b \in Base}
        \cup {Argument("trailspace", b.ts, W(b) \o <<(<<" ">>)>>) : b \in Base}
        \cup UNION {{Argument("double", b.ts, InsertAt(W(b), 2 * g, ConjAt(b.c, g + 1))) :
                        g \in Gaps(b)} : b \in Base}
        \cup UNION {{Argument("comma", b.ts, [W(b) EXCEPT ![2 * g] = <<",">>]) :
                        g \in Gaps(b)} : b \in Base}
        \cup UNION {{Argument("spaceonly", b.ts, [W(b) EXCEPT ![2 * g] = <<" ">>]) :
                        g \in Gaps(b)} : b \in Base}
        \cup UNION {{Argument("nosep", b.ts, RemoveAt(W(b), 2 * g)) :
                        g \in Gaps(b)} : b \in Base}
        \cup UNION {{Argument("unknown", b.ts, [W(b) EXCEPT ![2 * p - 1] = Spelling["Invalid"]]) :
                        p \in 1..Len(b.ts)} : b \in Base}
        \cup UNION {UNION {{Argument("case", b.ts,
                                [W(b) EXCEPT ![2 * p - 1] = ToggleAt(Spelling[b.ts[p]], k)]) :
                              k \in 1..Len(Spelling[b.ts[p]])} :
                        p \in 1..Len(b.ts)} : b \in Base}

ValidateArguments ==
    PlainArguments(MaxTerms) \cup SpacedArguments(MaxTerms) \cup DamagedArguments(MaxBadTerms)

-----------------------------------------------------------------------------
(* validateAccessControls applied to every explored argument *)

Pending == [terms |-> <<>>, err |-> NoError]

IdleGlobals ==
    /\ KeyringBackend = ""
    /\ KeychainAccessConstraint = ""
    /\ KeychainAccessControl = <<>>
    /\ hookErr = NoError

IdleCopy ==
    /\ ns = 0
    /\ src0 = <<>>
    /\ dest0 = <<>>
    /\ src = <<>>
    /\ srcOrder = <<>>
    /\ dest = <<>>
    /\ names = <<>>
    /\ idx = 0
    /\ cur = <<>>
    /\ ret = <<>>
    /\ calls = <<>>

InitValidate ==
    /\ arg \in ValidateArguments
    /\ accessControl = Flatten(arg.toks)
    /\ result = Pending
    /\ pc = "validateAccessControls"
    /\ IdleGlobals
    /\ IdleCopy

Validate ==
    /\ pc = "validateAccessControls"
    /\ result' = validateAccessControls(accessControl)
    /\ pc' = "returned"
    /\ UNCHANGED <<accessControl, arg, globalVars, copyVars>>

NextValidate == Validate

SpecValidate == InitValidate /\ [][NextValidate]_vars

-----------------------------------------------------------------------------
(* ConfigureGlobals: the flags are parsed into a, then the validation hook runs *)

\* keyring.AvailableBackends(), as far as the hook tells them apart
Backends == {"dp-keychain", "keychain", "file"}

HookArguments ==
    PlainArguments(MaxHookTerms) \cup SpacedArguments(MaxHookTerms) \cup DamagedArguments(1)

NotSupportedError(backend) == [msg |-> NotSupported, arg |-> <<>>, backend |-> backend]

InitGlobals ==
    /\ accessControl = <<>>
    /\ arg = Argument("empty", <<>>, <<>>)
    /\ result = Pending
    /\ pc = "Parse"
    /\ IdleGlobals
    /\ IdleCopy

\* kingpin sets the flag variables from the command line, the environment
\* and the defaults
ParseFlags ==
    /\ pc = "Parse"
    /\ \E b \in Backends, k \in Range(accessConstraintOptions), a \in HookArguments :
          /\ KeyringBackend' = b
          /\ KeychainAccessConstraint' = k
          /\ arg' = a
          /\ accessControl' = Flatten(a.toks)
    /\ pc' = "Validate"
    /\ UNCHANGED <<result, KeychainAccessControl, hookErr, copyVars>>

\* the hook without its check of the access constraint
ValidateHook_NoConstraintCheck ==
    /\ pc = "Validate"
    /\ IF KeyringBackend # "dp-keychain" /\ accessControl # Spelling["UserPresence"]
       THEN /\ hookErr' = NotSupportedError(KeyringBackend)
            /\ UNCHANGED <<result, KeychainAccessControl>>
       ELSE /\ result' = validateAccessControls(accessControl)
            /\ hookErr' = result'.err
            /\ KeychainAccessControl' =
                  IF result'.err # NoError THEN KeychainAccessControl ELSE result'.terms
    /\ pc' = IF hookErr' # NoError THEN "blocked" ELSE "started"
    /\ UNCHANGED <<accessControl, arg, KeyringBackend, KeychainAccessConstraint, copyVars>>

\* the function given to app.Validate
ValidateHook ==
    /\ pc = "Validate"
    /\ IF KeyringBackend # "dp-keychain" /\ KeychainAccessConstraint # ""
       THEN /\ hookErr' = NotSupportedError(KeyringBackend)
            /\ UNCHANGED <<result, KeychainAccessControl>>
       ELSE IF KeyringBackend # "dp-keychain" /\ accessControl # Spelling["UserPresence"]
       THEN /\ hookErr' = NotSupportedError(KeyringBackend)
            /\ UNCHANGED <<result, KeychainAccessControl>>
       ELSE /\ result' = validateAccessControls(accessControl)
            /\ hookErr' = result'.err
            /\ KeychainAccessControl' =
                  IF result'.err # NoError THEN KeychainAccessControl ELSE result'.terms
    /\ pc' = IF hookErr' # NoError THEN "blocked" ELSE "started"
    /\ UNCHANGED <<accessControl, arg, KeyringBackend, KeychainAccessConstraint, copyVars>>

NextGlobals == ParseFlags \/ ValidateHook

SpecGlobals == InitGlobals /\ [][NextGlobals]_vars

-----------------------------------------------------------------------------
(* The keyrings of CopyCommand.  A keyring holds, per namespace, payloads  *)
(* under keys; Keys, Get and Set either succeed or return an error.        *)

Namespaces == <<"Credential", "OIDCToken", "Session">>
KeyNames == {"a", "b", "c"}

MaxKeys == <<MaxCredentialKeys, MaxOIDCTokenKeys, MaxSessionKeys>>

\* the lists Keys() can return: distinct keys in any order
Listings(m) ==
    UNION {{l \in [1..k -> KeyNames] : \A i, j \in 1..k : i # j => l[i] # l[j]} :
              k \in 0..m}

Payload(n, k) == <<Namespaces[n], k, "secret">>
StalePayload(n, k) == <<Namespaces[n], k, "stale">>

EmptyKeyring == [n \in DOMAIN Namespaces |-> <<>>]
UsedKeyring == [n \in DOMAIN Namespaces |-> [k \in {"a", "z"} |-> StalePayload(n, k)]]

\* keyring.Set: the item k of namespace n becomes v
Put(store, n, k, v) ==
    [store EXCEPT ![n] = [x \in (DOMAIN @) \cup {k} |-> IF x = k THEN v ELSE @[x]]]

NoStoreError == [store |-> "", op |-> "", ns |-> 0, key |-> ""]
StoreError(store, op, n, k) == [store |-> store, op |-> op, ns |-> n, key |-> k]

Call(store, op, n, k, v, ok) ==
    [store |-> store, op |-> op, ns |-> n, key |-> k, payload |-> v, ok |-> ok]

-----------------------------------------------------------------------------
(* CopyCommand, one step per call on a keyring *)

InitCopy ==
    /\ srcOrder \in {<<c, o, s>> : c \in Listings(MaxKeys[1]), o \in Listings(MaxKeys[2]),
                                   s \in Listings(MaxKeys[3])}
    /\ src = [n \in DOMAIN Namespaces |-> [k \in Range(srcOrder[n]) |-> Payload(n, k)]]
    /\ dest \in {EmptyKeyring, UsedKeyring}
    /\ src0 = src
    /\ dest0 = dest
    /\ names = [n \in DOMAIN Namespaces |-> <<>>]
    /\ pc = "Keys"
    /\ ns = 1
    /\ idx = 0
    /\ cur = <<>>
    /\ ret = NoStoreError
    /\ calls = <<>>
    /\ accessControl = <<>>
    /\ arg = Argument("empty", <<>>, <<>>)
    /\ result = Pending
    /\ IdleGlobals

\* the range loops: after the i-th name of loop n (i = 0: on entering loop
\* n) comes the next name of the loop, else the next loop, else the return
RECURSIVE Loop(_, _, _)
Loop(n, i, nm) ==
    IF i < Len(nm[n]) THEN [pc |-> "Get", ns |-> n, idx |-> i + 1]
    ELSE IF n < Len(Namespaces) THEN Loop(n + 1, 0, nm)
    ELSE [pc |-> "done", ns |-> n, idx |-> i]

\* each namespace listed right before its own loop
Continue_PerNamespace(p, n, i, nm) ==
    IF p = "Get" THEN [pc |-> "Set", ns |-> n, idx |-> i]
    ELSE IF i < Len(nm[n]) THEN [pc |-> "Get", ns |-> n, idx |-> i + 1]
    ELSE IF n < Len(Namespaces) THEN [pc |-> "Keys", ns |-> n + 1, idx |-> 0]
    ELSE [pc |-> "done", ns |-> n, idx |-> i]

\* where CopyCommand continues after a successful call p of namespace n: the
\* three Keys() come first, then the three loops
Continue(p, n, i, nm) ==
    IF p = "Keys"
    THEN IF n < Len(Namespaces) THEN [pc |-> "Keys", ns |-> n + 1, idx |-> 0]
         ELSE Loop(1, 0, nm)
    ELSE IF p = "Get" THEN [pc |-> "Set", ns |-> n, idx |-> i]
    ELSE Loop(n, i, nm)

\* return err
ReturnError(e) ==
    /\ ret' = e
    /\ pc' = "done"
    /\ UNCHANGED <<ns, idx>>

Goto(p) ==
    /\ pc' = p.pc
    /\ ns' = p.ns
    /\ idx' = p.idx
    /\ UNCHANGED ret

\* the names put in another order before the loop
KeysStep_Reverses(n) ==
    /\ pc = "Keys"
    /\ ns = n
    /\ \E ok \in BOOLEAN :
          /\ calls' = Append(calls, Call("src", "Keys", n, "", <<>>, ok))
          /\ IF ~ok
             THEN /\ ReturnError(StoreError("src", "Keys", n, ""))
                  /\ UNCHANGED names
             ELSE /\ names' = [names EXCEPT ![n] =
                                  [j \in DOMAIN srcOrder[n] |-> srcOrder[n][Len(srcOrder[n]) + 1 - j]]]
                  /\ Goto(Continue("Keys", n, 0, names'))
    /\ UNCHANGED <<src, srcOrder, dest, cur, src0, dest0, validateVars, globalVars>>

\* srcXKeyring.Keys() and the check of its error
KeysStep(n) ==
    /\ pc = "Keys"
    /\ ns = n
    /\ \E ok \in BOOLEAN :
          /\ calls' = Append(calls, Call("src", "Keys", n, "", <<>>, ok))
          /\ IF ~ok
             THEN /\ ReturnError(StoreError("src", "Keys", n, ""))
                  /\ UNCHANGED names
             ELSE /\ names' = [names EXCEPT ![n] = srcOrder[n]]
                  /\ Goto(Continue("Keys", n, 0, names'))
    /\ UNCHANGED <<src, srcOrder, dest, cur, src0, dest0, validateVars, globalVars>>

\* a failed Get skips the name instead of returning
GetStep_SkipsOnError(n) ==
    /\ pc = "Get"
    /\ ns = n
    /\ LET name == names[n][idx] IN
       \E ok \in BOOLEAN :
          /\ calls' = Append(calls, Call("src", "Get", n, name, <<>>, ok))
          /\ IF ~ok
             THEN /\ Goto(Continue("Set", n, idx, names))
                  /\ UNCHANGED cur
             ELSE /\ cur' = src[n][name]
                  /\ Goto(Continue("Get", n, idx, names))
    /\ UNCHANGED <<src, srcOrder, dest, names, src0, dest0, validateVars, globalVars>>

\* the item is removed from the source once read (a move, not a copy)
GetStep_Moves(n) ==
    /\ pc = "Get"
    /\ ns = n
    /\ LET name == names[n][idx] IN
       \E ok \in BOOLEAN :
          /\ calls' = Append(calls, Call("src", "Get", n, name, <<>>, ok))
          /\ IF ~ok
             THEN /\ ReturnError(StoreError("src", "Get", n, name))
                  /\ UNCHANGED <<cur, src>>
             ELSE /\ cur' = src[n][name]
                  /\ src' = [src EXCEPT ![n] = [x \in (DOMAIN @) \ {name} |-> @[x]]]
                  /\ Goto(Continue("Get", n, idx, names))
    /\ UNCHANGED <<srcOrder, dest, names, src0, dest0, validateVars, globalVars>>

\* srcXKeyring.Get(name) and the check of its error
GetStep(n) ==
    /\ pc = "Get"
    /\ ns = n
    /\ LET name == names[n][idx] IN
       \E ok \in BOOLEAN :
          /\ calls' = Append(calls, Call("src", "Get", n, name, <<>>, ok))
          /\ IF ~ok
             THEN /\ ReturnError(StoreError("src", "Get", n, name))
                  /\ UNCHANGED cur
             ELSE /\ cur' = src[n][name]
                  /\ Goto(Continue("Get", n, idx, names))
    /\ UNCHANGED <<src, srcOrder, dest, names, src0, dest0, validateVars, globalVars>>

\* every loop writing through destCredentialKeyring
SetStep_AlwaysCredential(n) ==
    /\ pc = "Set"
    /\ ns = n
    /\ LET name == names[n][idx] IN
       \E ok \in BOOLEAN :
          /\ calls' = Append(calls, Call("dest", "Set", n, name, cur, ok))
          /\ IF ~ok
             THEN /\ ReturnError(StoreError("dest", "Set", n, name))
                  /\ UNCHANGED dest
             ELSE /\ dest' = Put(dest, 1, name, cur)
                  /\ Goto(Continue("Set", n, idx, names))
    /\ UNCHANGED <<src, srcOrder, names, cur, src0, dest0, validateVars, globalVars>>

\* destXKeyring.Set(name, item) and the check of its error
SetStep(n) ==
    /\ pc = "Set"
    /\ ns = n
    /\ LET name == names[n][idx] IN
       \E ok \in BOOLEAN :
          /\ calls' = Append(calls, Call("dest", "Set", n, name, cur, ok))
          /\ IF ~ok
             THEN /\ ReturnError(StoreError("dest", "Set", n, name))
                  /\ UNCHANGED dest
             ELSE /\ dest' = Put(dest, n, name, cur)
                  /\ Goto(Continue("Set", n, idx, names))
    /\ UNCHANGED <<src, srcOrder, names, cur, src0, dest0, validateVars, globalVars>>

KeysCredential == KeysStep(1)
KeysOIDCToken == KeysStep(2)
KeysSession == KeysStep(3)
GetCredential == GetStep(1)
SetCredential == SetStep(1)
GetOIDCToken == GetStep(2)
SetOIDCToken == SetStep(2)
GetSession == GetStep(3)
SetSession == SetStep(3)

NextCopy ==
    \/ KeysCredential
    \/ KeysOIDCToken
    \/ KeysSession
    \/ GetCredential
    \/ SetCredential
    \/ GetOIDCToken
    \/ SetOIDCToken
    \/ GetSession
    \/ SetSession

SpecCopy == InitCopy /\ [][NextCopy]_vars

-----------------------------------------------------------------------------
(* Properties of validateAccessControls *)

Returned == pc = "returned"

Distinct(ts) == \A i, j \in DOMAIN ts : i # j => ts[i] # ts[j]

\* the terms ts as the character sequences the validator returns
Spelled(ts) == [i \in DOMAIN ts |-> Spelling[ts[i]]]

\* the leftmost position of ts whose term already occurred to its left
FirstRepeat(ts) ==
    CHOOSE j \in DOMAIN ts :
        /\ \E i \in 1..(j - 1) : ts[i] = ts[j]
        /\ \A k \in 1..(j - 1) : \A i \in 1..(k - 1) : ts[i] # ts[k]

InvalidSyntax(r) == r.terms = <<>> /\ r.err = Errorf(InvalidSetting, accessControl)

\* C1: distinct vocabulary terms joined directly by "And"/"Or", in exact
\* casing, are accepted, and the terms returned are those terms, in order.
C1_WellFormedReturnsTerms ==
    (Returned /\ arg.kind = "plain" /\ Distinct(arg.terms))
        => (result.err = NoError /\ result.terms = Spelled(arg.terms))

C1_Witness ==
    /\ Returned
    /\ arg.kind = "plain"
    /\ Len(arg.terms) >= 3
    /\ Distinct(arg.terms)
    /\ result.terms = Spelled(arg.terms)

\* C2: the empty string, an unknown term, a term with a letter's case
\* altered, a leading, a trailing or a doubled conjunction and a separator
\* other than "And"/"Or" are each refused with the invalid-setting error
\* carrying the string, and no terms are returned.
C2_MalformedIsInvalidSyntax ==
    (Returned /\ arg.kind \in {"empty", "unknown", "case", "lead", "trail", "double",
                               "comma", "spaceonly"})
        => InvalidSyntax(result)

C2_Witness ==
    /\ Returned
    /\ arg.kind = "trail"
    /\ Len(arg.terms) = 2
    /\ InvalidSyntax(result)

\* C3: a well-formed expression in which a term occurs twice is refused with
\* the repeated-term error, no terms are returned, and the error names the
\* first term, from the left, that repeats an earlier one.
C3_RepeatNamesFirstRepeat ==
    (Returned /\ arg.kind \in {"plain", "spaced"} /\ ~Distinct(arg.terms))
        => /\ result.terms = <<>>
           /\ result.err = Errorf(RepeatedTerm, Spelling[arg.terms[FirstRepeat(arg.terms)]])

\* A And B And B And A: the error names B
C3_Witness ==
    /\ Returned
    /\ arg.kind = "plain"
    /\ Len(arg.terms) = 4
    /\ arg.terms[1] = arg.terms[4]
    /\ arg.terms[2] = arg.terms[3]
    /\ arg.terms[1] # arg.terms[2]
    /\ result.err = Errorf(RepeatedTerm, Spelling[arg.terms[2]])

\* C8, as stated: the grammar is TERM (("And"|"Or") TERM)* with nothing
\* else allowed, so white space between a term and a conjunction is refused
\* with the invalid-setting error.
C8_Original ==
    Returned => (result.err.msg # InvalidSetting <=> arg.kind = "plain")

\* C8, amended: the grammar is TERM (\s* ("And"|"Or") \s* TERM)*, anchored at
\* both ends: white space around a conjunction is accepted and is not part
\* of the returned terms; anything else (other separators, unknown or
\* re-cased terms, misplaced conjunctions, leading or trailing white space,
\* the empty string) is refused with the invalid-setting error.
C8_GrammarAllowsSpaceAroundConjunctions ==
    Returned =>
        /\ result.err.msg # InvalidSetting <=> arg.kind \in {"plain", "spaced"}
        /\ result.err.msg = InvalidSetting => InvalidSyntax(result)
        /\ (arg.kind = "spaced" /\ Distinct(arg.terms))
              => (result.err = NoError /\ result.terms = Spelled(arg.terms))

C8_Witness ==
    /\ Returned
    /\ arg.kind = "spaced"
    /\ Len(arg.terms) >= 2
    /\ result.err = NoError
    /\ result.terms = Spelled(arg.terms)

-----------------------------------------------------------------------------
(* Properties of the validation hook *)

HookReturned == pc \in {"blocked", "started"}

\* C10: with a backend other than dp-keychain the hook returns the
\* not-supported error whenever the access control differs from
\* "UserPresence" or the access constraint is not empty, and passes for
\* "UserPresence" with an empty constraint; it passes exactly when the
\* backend supports the setting and the string validates; whenever it
\* returns an error the start is blocked and KeychainAccessControl stays
\* unset, and on success KeychainAccessControl holds the validated terms.
C10_HookGatesStartup ==
    HookReturned =>
        LET other == KeyringBackend # "dp-keychain"
            default == accessControl = Spelling["UserPresence"]
            supported == ~other \/ (default /\ KeychainAccessConstraint = "")
            valid == arg.kind \in {"plain", "spaced"} /\ Distinct(arg.terms)
        IN  /\ (other /\ (~default \/ KeychainAccessConstraint # ""))
                  => hookErr = NotSupportedError(KeyringBackend)
            /\ (other /\ default /\ KeychainAccessConstraint = "") => hookErr = NoError
            /\ hookErr = NoError <=> (supported /\ valid)
            /\ (supported /\ ~valid) => hookErr.msg \in {InvalidSetting, RepeatedTerm}
            /\ hookErr # NoError => (pc = "blocked" /\ KeychainAccessControl = <<>>)
            /\ hookErr = NoError
                  => (pc = "started" /\ KeychainAccessControl = Spelled(arg.terms))

C10_Witness ==
    /\ pc = "blocked"
    /\ KeyringBackend = "keychain"
    /\ accessControl = Spelling["UserPresence"]
    /\ KeychainAccessConstraint = "AccessibleWhenUnlocked"
    /\ hookErr = NotSupportedError("keychain")
    /\ KeychainAccessControl = <<>>

-----------------------------------------------------------------------------
(* Properties of CopyCommand *)

Done == pc = "done"
Succeeded == Done /\ ret = NoStoreError
Failed == Done /\ ret # NoStoreError

IsTransfer(c) == c.op \in {"Get", "Set"}
Transfers == SelectSeq(calls, IsTransfer)

\* C4: when CopyCommand returns nil the destination holds, in each of the
\* three namespaces, every key the source listed, with the source's payload.
C4_SuccessCopiesEverything ==
    Succeeded =>
        \A n \in DOMAIN Namespaces : \A k \in Range(srcOrder[n]) :
            k \in DOMAIN dest[n] /\ dest[n][k] = src0[n][k]

C4_Witness ==
    /\ Succeeded
    /\ dest0 = UsedKeyring
    /\ Len(srcOrder[1]) >= 2
    /\ Len(srcOrder[2]) >= 1
    /\ Len(srcOrder[3]) >= 1
    /\ "a" \in Range(srcOrder[3])

\* the destination d after the successful Sets among the calls cs[i..]
RECURSIVE Replay(_, _, _)
Replay(d, cs, i) ==
    IF i > Len(cs) THEN d
    ELSE IF cs[i].op = "Set" /\ cs[i].ok
    THEN Replay(Put(d, cs[i].ns, cs[i].key, cs[i].payload), cs, i + 1)
    ELSE Replay(d, cs, i + 1)

\* C5: the first failing Get or Set ends the copy: its error is returned
\* unchanged, no call on either keyring follows it, and the destination is
\* what it was at the call plus the Sets that succeeded before the failure.
C5_FailFastNoRollback ==
    /\ \A i \in DOMAIN calls :
          ~calls[i].ok =>
              /\ i = Len(calls)
              /\ Done
              /\ ret = StoreError(calls[i].store, calls[i].op, calls[i].ns, calls[i].key)
    /\ Done => ~ENABLED NextCopy
    /\ Failed => ~calls[Len(calls)].ok
    /\ dest = Replay(dest0, calls, 1)

\* Get fails on the second of three Credential keys: only the first is copied
C5_Witness ==
    /\ Failed
    /\ dest0 = EmptyKeyring
    /\ Len(srcOrder[1]) = 3
    /\ ret = StoreError("src", "Get", 1, srcOrder[1][2])
    /\ DOMAIN dest[1] = {srcOrder[1][1]}
    /\ dest[1][srcOrder[1][1]] = src0[1][srcOrder[1][1]]
    /\ dest[2] = <<>>
    /\ dest[3] = <<>>

OIDCTokenKeysFailed == Done /\ ret = StoreError("src", "Keys", 2, "")

\* C6, as stated: when listing the OIDCToken keys fails, no OIDCToken or
\* Session item has been transferred and every Credential item of the
\* source is in the destination.
C6_Original ==
    OIDCTokenKeysFailed =>
        /\ \A i \in DOMAIN Transfers : Transfers[i].ns = 1
        /\ \A k \in DOMAIN src[1] : k \in DOMAIN dest[1] /\ dest[1][k] = src[1][k]

\* C6, amended: when listing the OIDCToken keys fails, CopyCommand returns
\* that error before any transfer at all, the Credential ones included: the
\* three namespaces are listed before the first Get, and the destination is
\* as it was when CopyCommand was called.
C6_ListingFailureBeforeAnyTransfer ==
    OIDCTokenKeysFailed =>
        /\ Transfers = <<>>
        /\ dest = dest0
        /\ Len(calls) = 2

C6_Witness ==
    /\ OIDCTokenKeysFailed
    /\ Len(srcOrder[1]) >= 2
    /\ dest = EmptyKeyring

\* C7: the source is never changed: only Keys and Get are called on it, and
\* it holds in every namespace what it held when CopyCommand was called.
C7_SourceNeverMutated ==
    /\ src = src0
    /\ \A i \in DOMAIN calls :
          /\ calls[i].store = "src" => calls[i].op \in {"Keys", "Get"}
          /\ calls[i].op \in {"Keys", "Get"} => calls[i].store = "src"

C7_Witness ==
    /\ Failed
    /\ ret.op = "Set"
    /\ ret.ns = 3
    /\ Len(srcOrder[1]) >= 2
    /\ src = src0

\* the transfers of a complete copy: per namespace, in order, and per listed
\* key, in the order listed, a Get on the source then a Set on the destination
RECURSIVE Expected(_, _)
Expected(n, i) ==
    IF n > Len(Namespaces) THEN <<>>
    ELSE IF i > Len(srcOrder[n]) THEN Expected(n + 1, 1)
    ELSE <<[store |-> "src", op |-> "Get", ns |-> n, key |-> srcOrder[n][i]],
           [store |-> "dest", op |-> "Set", ns |-> n, key |-> srcOrder[n][i]]>>
         \o Expected(n, i + 1)

\* C9: the transfers happen one after the other in a fixed order: the
\* Credential keys, then the OIDCToken keys, then the Session keys, each
\* namespace in the order Keys() listed it, each key's Get directly before
\* its Set.
C9_TransfersInListedOrder ==
    LET e == Expected(1, 1) IN
    /\ Len(Transfers) <= Len(e)
    /\ \A i \in DOMAIN Transfers :
          /\ Transfers[i].store = e[i].store
          /\ Transfers[i].op = e[i].op
          /\ Transfers[i].ns = e[i].ns
          /\ Transfers[i].key = e[i].key
    /\ Succeeded => Len(Transfers) = Len(e)

C9_Witness ==
    /\ Succeeded
    /\ Len(srcOrder[1]) = 3
    /\ srcOrder[1][1] = "c"
    /\ srcOrder[1][2] = "a"
    /\ Len(srcOrder[2]) = 2
    /\ Len(srcOrder[3]) = 2
    /\ Len(Transfers) = 14

=============================================================================
